---- MODULE Spec2Model ----
(***************************************************************************)
(* The tutorial notebook "Visualisation in 3D" of OptimUS, executed cell   *)
(* by cell from top to bottom (Run All) by a single Python interpreter.    *)
(*                                                                         *)
(* The notebook is a straight-line script of calls on the OptimUS library. *)
(* The library is an opaque collaborator: a call returns a fresh handle or *)
(* mutates its receiver, may emit a warning, and may raise.  What is       *)
(* modelled exactly is what the notebook owns: the order of its            *)
(* statements, the names they bind and read, the handles that flow from    *)
(* one call into the next, the warning filter and the global quadrature    *)
(* order.                                                                  *)
(***************************************************************************)
EXTENDS Integers, Sequences, FiniteSets, TLC

(* ------------------------------ bounds --------------------------------- *)

\* The library emits at most this many warnings during one execution.
MaxWarnings == 1

\* The library's own default quadrature order, unknown to the notebook,
\* is one of 1..MaxDefaultOrder.
MaxDefaultOrder == 2

(* --------------------------- the program text -------------------------- *)

\* One statement of a code cell.
\*   line    line of the statement in the .ipynb file
\*   op      the function, method or statement form
\*   target  the name the statement binds ("" when it binds none)
\*   recv    the variable a method is called on ("" for a function)
\*   module  the imported module the call goes through ("" when none)
\*   args    the variables passed as arguments
\*   num     the numeric literal the model keeps (0 when none)
\*   lits    the string literals and builtin names of the call
S(line, op, target, recv, module, args, num, lits) ==
    [line |-> line, op |-> op, target |-> target, recv |-> recv,
     module |-> module, args |-> args, num |-> num, lits |-> lits]

\* The mesh files hold coordinates in millimetres: 10^-3 m.
MeshFileUnitExp == -3

\* import sys; sys.path.append('..')
Cell1 ==
    << S(30, "import", "sys", "", "", <<>>, 0, <<"sys">>),
       S(31, "path_append", "", "sys", "", <<>>, 0, <<"..">>) >>

\* import optimus
Cell2 ==
    << S(41, "import", "optimus", "", "", <<>>, 0, <<"optimus">>) >>

\* physical parameters and the bowl source
Cell3 ==
    << S(67, "assign", "frequency", "", "", <<>>, 0, <<"100e3">>),
       S(68, "assign", "radius_of_curvature", "", "", <<>>, 0, <<"64e-3">>),
       S(69, "assign", "radius", "", "", <<"radius_of_curvature">>, 0, <<"/ 2">>),
       S(70, "assign", "location", "", "", <<"radius_of_curvature">>, 0, <<"(0, 0, -x)">>),
       S(71, "assign", "velocity", "", "", <<>>, 0, <<"0.04">>),
       S(72, "create_bowl", "source", "", "optimus",
         <<"frequency", "radius", "radius_of_curvature", "location", "velocity">>,
         0, <<"(0, 0, 1)">>) >>

\* exterior and interior material
Cell4 ==
    << S(82, "load_material", "material_ext", "", "optimus", <<>>, 0, <<"water">>),
       S(83, "load_material", "material_int", "", "optimus", <<>>, 0, <<"bone (cortical)">>) >>

\* the two rib cage meshes
Cell5 ==
    << S(101, "import_grid", "geometry1", "", "optimus", <<>>, MeshFileUnitExp,
         <<"Data/ribcage4-h-4.msh", "ribcage4">>),
       S(102, "import_grid", "geometry2", "", "optimus", <<>>, MeshFileUnitExp,
         <<"Data/ribcage3-h-1.msh", "ribcage3">>) >>

\* A mutation of Cell6: the warning filter is installed only after the grid
\* has been displayed.
Cell6_FilterAfterDisplay ==
    << S(135, "import", "warnings", "", "", <<>>, 0, <<"warnings">>),
       S(138, "Visualise3DGrid", "grids", "", "optimus",
         <<"geometry1", "geometry2">>, 0, <<>>),
       S(139, "create_computational_grid", "", "grids", "", <<>>, 0, <<>>),
       S(140, "display_field", "", "grids", "", <<>>, 0, <<>>),
       S(136, "simplefilter", "", "", "warnings", <<>>, 0, <<"ignore", "UserWarning">>) >>

\* warning filter, then the 3D view of the imported meshes
Cell6 ==
    << S(135, "import", "warnings", "", "", <<>>, 0, <<"warnings">>),
       S(136, "simplefilter", "", "", "warnings", <<>>, 0, <<"ignore", "UserWarning">>),
       S(138, "Visualise3DGrid", "grids", "", "optimus",
         <<"geometry1", "geometry2">>, 0, <<>>),
       S(139, "create_computational_grid", "", "grids", "", <<>>, 0, <<>>),
       S(140, "display_field", "", "grids", "", <<>>, 0, <<>>) >>

\* A mutation of Cell7: the model is built on the imported mesh, the scaled
\* one is left unused.
Cell7_UnscaledModel ==
    << S(160, "scale_mesh", "geometry", "", "optimus", <<"geometry1">>, -3, <<>>),
       S(161, "create_default_model", "model", "", "optimus",
         <<"source", "geometry1", "material_ext", "material_int">>, 0, <<>>) >>

\* scale the mesh to metres and create the default model
Cell7 ==
    << S(160, "scale_mesh", "geometry", "", "optimus", <<"geometry1">>, -3, <<>>),
       S(161, "create_default_model", "model", "", "optimus",
         <<"source", "geometry", "material_ext", "material_int">>, 0, <<>>) >>

\* %%time / model.solve()
Cell8 ==
    << S(189, "solve", "", "model", "", <<>>, 0, <<>>) >>

\* A mutation of Cell9: the quadrature order is set after the field of the
\* plane has been computed.
Cell9_OrderSetLate ==
    << S(208, "VisualisePlane", "postprocess_plane", "", "optimus", <<"model">>, 0, <<>>),
       S(209, "create_computational_grid", "", "postprocess_plane", "", <<>>, 0,
         <<"resolution=(141, 241)", "plane_axes=(1, 2)">>),
       S(211, "compute_fields", "", "postprocess_plane", "", <<>>, 0, <<>>),
       S(207, "set_quadrature_order", "", "", "optimus", <<>>, 20, <<>>) >>

\* quadrature order, then the field in a plane through the focus
Cell9 ==
    << S(207, "set_quadrature_order", "", "", "optimus", <<>>, 20, <<>>),
       S(208, "VisualisePlane", "postprocess_plane", "", "optimus", <<"model">>, 0, <<>>),
       S(209, "create_computational_grid", "", "postprocess_plane", "", <<>>, 0,
         <<"resolution=(141, 241)", "plane_axes=(1, 2)">>),
       S(211, "compute_fields", "", "postprocess_plane", "", <<>>, 0, <<>>) >>

\* A mutation of Cell10: the field is displayed before it is computed.
Cell10_DisplayBeforeCompute ==
    << S(246, "Visualise3DField", "postprocess_3D", "", "optimus", <<"model">>, 0, <<>>),
       S(247, "create_computational_grid", "", "postprocess_3D", "", <<>>, 0, <<>>),
       S(248, "add_VisualisePlane", "", "postprocess_3D", "", <<"postprocess_plane">>, 0, <<>>),
       S(250, "display_field", "", "postprocess_3D", "", <<>>, 0, <<>>),
       S(249, "compute_fields", "", "postprocess_3D", "", <<>>, 0, <<>>) >>

\* A mutation of Cell10: the plane is added after the 3D field is computed.
Cell10_PlaneAddedLate ==
    << S(246, "Visualise3DField", "postprocess_3D", "", "optimus", <<"model">>, 0, <<>>),
       S(247, "create_computational_grid", "", "postprocess_3D", "", <<>>, 0, <<>>),
       S(249, "compute_fields", "", "postprocess_3D", "", <<>>, 0, <<>>),
       S(248, "add_VisualisePlane", "", "postprocess_3D", "", <<"postprocess_plane">>, 0, <<>>),
       S(250, "display_field", "", "postprocess_3D", "", <<>>, 0, <<>>) >>

\* surface and plane with their field values
Cell10 ==
    << S(246, "Visualise3DField", "postprocess_3D", "", "optimus", <<"model">>, 0, <<>>),
       S(247, "create_computational_grid", "", "postprocess_3D", "", <<>>, 0, <<>>),
       S(248, "add_VisualisePlane", "", "postprocess_3D", "", <<"postprocess_plane">>, 0, <<>>),
       S(249, "compute_fields", "", "postprocess_3D", "", <<>>, 0, <<>>),
       S(250, "display_field", "", "postprocess_3D", "", <<>>, 0, <<>>) >>

\* import numpy as np
Cell11 ==
    << S(270, "import", "np", "", "", <<>>, 0, <<"numpy">>) >>

\* 500 random points near the rib cage
Cell12 ==
    << S(280, "assign", "n", "", "", <<>>, 500, <<>>),
       S(281, "rand", "pointsarray", "", "np", <<"n">>, 0, <<"* 0.18 - 0.09">>) >>

\* the field in the cloud of points
Cell13 ==
    << S(314, "VisualiseCloudPoints", "points", "", "optimus", <<"model">>, 0, <<>>),
       S(315, "create_computational_grid", "", "points", "", <<"pointsarray">>, 0, <<>>),
       S(316, "compute_fields", "", "points", "", <<>>, 0, <<>>),
       S(317, "display_field", "", "points", "", <<>>, 0, <<"size = 0.009">>) >>

\* Mutations of the cell order: the plane cell run before the solve cell,
\* the model cell run before the mesh view, the point cloud cells run
\* before numpy is imported.
Notebook_PlaneBeforeSolve ==
    Cell1 \o Cell2 \o Cell3 \o Cell4 \o Cell5 \o Cell6 \o Cell7 \o Cell9 \o Cell8
          \o Cell10 \o Cell11 \o Cell12 \o Cell13

Notebook_ModelBeforeView ==
    Cell1 \o Cell2 \o Cell3 \o Cell4 \o Cell5 \o Cell7 \o Cell6 \o Cell8 \o Cell9
          \o Cell10 \o Cell11 \o Cell12 \o Cell13

Notebook_PointsBeforeNumpy ==
    Cell1 \o Cell2 \o Cell3 \o Cell4 \o Cell5 \o Cell6 \o Cell7 \o Cell8 \o Cell9
          \o Cell10 \o Cell12 \o Cell11 \o Cell13

\* The code cells in the order of the file, which is the order of execution.
Notebook ==
    Cell1 \o Cell2 \o Cell3 \o Cell4 \o Cell5 \o Cell6 \o Cell7 \o Cell8 \o Cell9
          \o Cell10 \o Cell11 \o Cell12 \o Cell13

N == Len(Notebook)

\* Every name some statement binds.
Names == { Notebook[i].target : i \in 1..N } \ {""}

\* The names a statement reads: receiver, module and arguments.
Reads(s) ==
    ({s.recv, s.module} \cup { s.args[i] : i \in 1..Len(s.args) }) \ {""}

\* The statements that call into OptimUS or numpy, or import a module:
\* the ones an external failure can come from.
LibraryOps ==
    {"import", "create_bowl", "load_material", "import_grid", "Visualise3DGrid",
     "create_computational_grid", "display_field", "scale_mesh",
     "create_default_model", "solve", "VisualisePlane", "compute_fields",
     "Visualise3DField", "add_VisualisePlane", "rand", "VisualiseCloudPoints"}

\* The classes of optimus.postprocess the notebook instantiates.
PostprocessClasses ==
    {"Visualise3DGrid", "VisualisePlane", "Visualise3DField", "VisualiseCloudPoints"}

\* Those of them that are built from the model.
ModelBasedClasses == {"VisualisePlane", "Visualise3DField", "VisualiseCloudPoints"}

\* The functions returning a plain handle.
FactoryOps == {"create_bowl", "load_material", "import_grid", "rand"}

\* The warning categories the library may raise a warning of.
Categories == {"UserWarning", "RuntimeWarning"}

(* ------------------------------- state --------------------------------- *)

VARIABLES
    pc,                \* index in Notebook of the next statement to execute
    status,            \* "running", "done", "NameError" or "LibraryError"
    env,               \* the kernel's namespace: name -> handle (0: unbound)
    binds,             \* name -> how many times the name has been bound
    heap,              \* the objects created so far; a handle is an index
    filters,           \* warnings.filters, newest first, above the defaults
    quadrature_order,  \* optimus.global_parameters.postprocessing.quadrature_order
                       \* (0: the optimus module is not loaded)
    emitted,           \* <<line, category>> of the warnings the library raised
    shown,             \* those of them the filters let through
    trace              \* the calls executed so far, in order

vars == <<pc, status, env, binds, heap, filters, quadrature_order,
          emitted, shown, trace>>

DefaultOrders == 1..MaxDefaultOrder

Init ==
    /\ pc = 1
    /\ status = "running"
    /\ env = [n \in Names |-> 0]
    /\ binds = [n \in Names |-> 0]
    /\ heap = <<>>
    /\ filters = <<>>
    /\ quadrature_order = 0
    /\ emitted = {}
    /\ shown = {}
    /\ trace = <<>>

(* ------------------------------ helpers -------------------------------- *)

\* The statement about to be executed.
Cur == Notebook[pc]

\* The interpreter is about to execute a statement of one of the forms ops.
Running(ops) ==
    /\ status = "running"
    /\ pc <= N
    /\ Cur.op \in ops

\* Every name the statement reads is bound.
Bound(s) == \A n \in Reads(s) : env[n] # 0

\* The handles passed as arguments.
ArgIds(s) == [i \in 1..Len(s.args) |-> env[s.args[i]]]

\* A fresh object as a call returns it.
NewObj(kind, s, from, unit) ==
    [kind |-> kind, by |-> s.op, line |-> s.line, from |-> from,
     unit_exp |-> unit, solved |-> FALSE, calls |-> <<>>, planes |-> <<>>,
     quad |-> <<>>]

\* One more entry of the call log: the statement, the object it created or
\* was called on (0: none), the handles passed, and how it ended.
Log(s, obj, outcome) ==
    Append(trace, [line |-> s.line, op |-> s.op, obj |-> obj,
                   args |-> IF Bound(s) THEN ArgIds(s) ELSE <<>>,
                   outcome |-> outcome])

\* target = <new object>
BindNew(s, o) ==
    /\ heap' = Append(heap, o)
    /\ env' = [env EXCEPT ![s.target] = Len(heap) + 1]
    /\ binds' = [binds EXCEPT ![s.target] = @ + 1]

\* The statement returned: the next one is executed.
Return(s, obj) ==
    /\ pc' = pc + 1
    /\ status' = status
    /\ trace' = Log(s, obj, "returned")

\* A name that is read is unbound: NameError, and the execution stops.
NameError(s) ==
    /\ status' = "NameError"
    /\ trace' = Log(s, 0, "NameError")
    /\ UNCHANGED <<pc, env, binds, heap, filters, quadrature_order, emitted, shown>>

\* The action the warning filters give for a category: that of the first
\* filter matching it, "default" (show) when none matches.
FilterAction(cat) ==
    LET hits == { i \in 1..Len(filters) : filters[i].category = cat }
    IN  IF hits = {} THEN "default"
        ELSE filters[CHOOSE i \in hits : \A j \in hits : i <= j].action

\* What the library may warn about during one call.
WarningChoices ==
    {"none"} \cup (IF Cardinality(emitted) < MaxWarnings THEN Categories ELSE {})

\* The call of statement s raised warning w (or "none").
Emit(s, w) ==
    /\ emitted' = IF w = "none" THEN emitted ELSE emitted \cup {<<s.line, w>>}
    /\ shown' = IF w # "none" /\ FilterAction(w) # "ignore"
                THEN shown \cup {<<s.line, w>>} ELSE shown

\* A method call on the receiver completed.
Called(s) ==
    heap' = [heap EXCEPT ![env[s.recv]].calls = Append(@, s.op)]

(* ------------------------------ actions -------------------------------- *)

\* import <module> [as <name>]
Import ==
    /\ Running({"import"})
    /\ \E w \in WarningChoices :
       \E d \in (IF Cur.lits[1] = "optimus" THEN DefaultOrders ELSE {quadrature_order}) :
          /\ BindNew(Cur, NewObj("module", Cur, <<>>, 0))
          /\ quadrature_order' = d
          /\ Emit(Cur, w)
          /\ Return(Cur, Len(heap) + 1)
          /\ UNCHANGED filters

\* <name> = <literal or arithmetic on earlier names>
Assign ==
    /\ Running({"assign"})
    /\ IF ~Bound(Cur) THEN NameError(Cur)
       ELSE /\ BindNew(Cur, NewObj("value", Cur, ArgIds(Cur), 0))
            /\ Return(Cur, Len(heap) + 1)
            /\ UNCHANGED <<filters, quadrature_order, emitted, shown>>

\* sys.path.append('..')
PathAppend ==
    /\ Running({"path_append"})
    /\ IF ~Bound(Cur) THEN NameError(Cur)
       ELSE /\ Called(Cur)
            /\ Return(Cur, env[Cur.recv])
            /\ UNCHANGED <<env, binds, filters, quadrature_order, emitted, shown>>

\* warnings.simplefilter(action, category): the filter goes to the front.
SimpleFilter ==
    /\ Running({"simplefilter"})
    /\ IF ~Bound(Cur) THEN NameError(Cur)
       ELSE /\ filters' = <<[action |-> Cur.lits[1], category |-> Cur.lits[2]]>> \o filters
            /\ Return(Cur, 0)
            /\ UNCHANGED <<env, binds, heap, quadrature_order, emitted, shown>>

\* optimus.global_parameters.postprocessing.quadrature_order = <num>
SetQuadratureOrder ==
    /\ Running({"set_quadrature_order"})
    /\ IF ~Bound(Cur) THEN NameError(Cur)
       ELSE /\ quadrature_order' = Cur.num
            /\ Return(Cur, 0)
            /\ UNCHANGED <<env, binds, heap, filters, emitted, shown>>

\* create_bowl, load_material, import_grid, np.random.rand: a fresh handle.
\* An imported grid carries the unit of its mesh file.
Factory ==
    /\ Running(FactoryOps)
    /\ IF ~Bound(Cur) THEN NameError(Cur)
       ELSE \E w \in WarningChoices :
            /\ BindNew(Cur, NewObj(CASE Cur.op = "create_bowl" -> "source"
                                     [] Cur.op = "load_material" -> "material"
                                     [] Cur.op = "import_grid" -> "geometry"
                                     [] OTHER -> "ndarray",
                                   Cur, ArgIds(Cur), Cur.num))
            /\ Emit(Cur, w)
            /\ Return(Cur, Len(heap) + 1)
            /\ UNCHANGED <<filters, quadrature_order>>

\* geometry = scale_mesh(g, 10^num): a new geometry whose coordinates are
\* those of g times the factor; g itself is left as it is.
ScaleMesh ==
    /\ Running({"scale_mesh"})
    /\ IF ~Bound(Cur) THEN NameError(Cur)
       ELSE \E w \in WarningChoices :
            /\ BindNew(Cur, NewObj("geometry", Cur, ArgIds(Cur),
                                   heap[env[Cur.args[1]]].unit_exp - Cur.num))
            /\ Emit(Cur, w)
            /\ Return(Cur, Len(heap) + 1)
            /\ UNCHANGED <<filters, quadrature_order>>

\* model = create_default_model(source, geometry, material_ext, material_int)
CreateDefaultModel ==
    /\ Running({"create_default_model"})
    /\ IF ~Bound(Cur) THEN NameError(Cur)
       ELSE \E w \in WarningChoices :
            /\ BindNew(Cur, NewObj("model", Cur, ArgIds(Cur), 0))
            /\ Emit(Cur, w)
            /\ Return(Cur, Len(heap) + 1)
            /\ UNCHANGED <<filters, quadrature_order>>

\* model.solve(): the model now holds its solution.
Solve ==
    /\ Running({"solve"})
    /\ IF ~Bound(Cur) THEN NameError(Cur)
       ELSE \E w \in WarningChoices :
            /\ heap' = [heap EXCEPT ![env[Cur.recv]].solved = TRUE,
                                    ![env[Cur.recv]].calls = Append(@, Cur.op)]
            /\ Emit(Cur, w)
            /\ Return(Cur, env[Cur.recv])
            /\ UNCHANGED <<env, binds, filters, quadrature_order>>

\* <name> = optimus.postprocess.<Class>(...): the object keeps references
\* to what it is built from.
Construct ==
    /\ Running(PostprocessClasses)
    /\ IF ~Bound(Cur) THEN NameError(Cur)
       ELSE \E w \in WarningChoices :
            /\ BindNew(Cur, NewObj("postprocess", Cur, ArgIds(Cur), 0))
            /\ Emit(Cur, w)
            /\ Return(Cur, Len(heap) + 1)
            /\ UNCHANGED <<filters, quadrature_order>>

\* <object>.create_computational_grid(...)
CreateComputationalGrid ==
    /\ Running({"create_computational_grid"})
    /\ IF ~Bound(Cur) THEN NameError(Cur)
       ELSE \E w \in WarningChoices :
            /\ Called(Cur)
            /\ Emit(Cur, w)
            /\ Return(Cur, env[Cur.recv])
            /\ UNCHANGED <<env, binds, filters, quadrature_order>>

\* postprocess_3D.add_VisualisePlane(plane)
AddVisualisePlane ==
    /\ Running({"add_VisualisePlane"})
    /\ IF ~Bound(Cur) THEN NameError(Cur)
       ELSE \E w \in WarningChoices :
            /\ heap' = [heap EXCEPT ![env[Cur.recv]].planes = Append(@, env[Cur.args[1]]),
                                    ![env[Cur.recv]].calls = Append(@, Cur.op)]
            /\ Emit(Cur, w)
            /\ Return(Cur, env[Cur.recv])
            /\ UNCHANGED <<env, binds, filters, quadrature_order>>

\* <object>.compute_fields(): evaluated with the quadrature order in force.
ComputeFields ==
    /\ Running({"compute_fields"})
    /\ IF ~Bound(Cur) THEN NameError(Cur)
       ELSE \E w \in WarningChoices :
            /\ heap' = [heap EXCEPT ![env[Cur.recv]].quad = Append(@, quadrature_order),
                                    ![env[Cur.recv]].calls = Append(@, Cur.op)]
            /\ Emit(Cur, w)
            /\ Return(Cur, env[Cur.recv])
            /\ UNCHANGED <<env, binds, filters, quadrature_order>>

\* <object>.display_field(...)
DisplayField ==
    /\ Running({"display_field"})
    /\ IF ~Bound(Cur) THEN NameError(Cur)
       ELSE \E w \in WarningChoices :
            /\ Called(Cur)
            /\ Emit(Cur, w)
            /\ Return(Cur, env[Cur.recv])
            /\ UNCHANGED <<env, binds, filters, quadrature_order>>

\* A mutation of Raise: the exception is swallowed and the execution goes
\* on with the next statement.
Raise_Swallowed ==
    /\ Running(LibraryOps)
    /\ Bound(Cur)
    /\ pc' = pc + 1
    /\ status' = status
    /\ trace' = Log(Cur, IF Cur.recv = "" THEN 0 ELSE env[Cur.recv], "raised")
    /\ UNCHANGED <<env, binds, heap, filters, quadrature_order, emitted, shown>>

\* A library call or an import raises.  No statement of the notebook is in
\* a try block: the exception leaves the cell and the execution stops.
Raise ==
    /\ Running(LibraryOps)
    /\ Bound(Cur)
    /\ status' = "LibraryError"
    /\ trace' = Log(Cur, IF Cur.recv = "" THEN 0 ELSE env[Cur.recv], "raised")
    /\ UNCHANGED <<pc, env, binds, heap, filters, quadrature_order, emitted, shown>>

\* The last cell has been executed.
Finish ==
    /\ status = "running"
    /\ pc = N + 1
    /\ status' = "done"
    /\ UNCHANGED <<pc, env, binds, heap, filters, quadrature_order, emitted, shown, trace>>

Next ==
    \/ Import
    \/ Assign
    \/ PathAppend
    \/ SimpleFilter
    \/ SetQuadratureOrder
    \/ Factory
    \/ ScaleMesh
    \/ CreateDefaultModel
    \/ Solve
    \/ Construct
    \/ CreateComputationalGrid
    \/ AddVisualisePlane
    \/ ComputeFields
    \/ DisplayField
    \/ Raise
    \/ Finish

Spec == Init /\ [][Next]_vars

(* ------------------------- reading the call log ------------------------ *)

Failed == status \in {"NameError", "LibraryError"}

\* Entry i of the log is a call that returned.
Returned(i) == trace[i].outcome = "returned"

\* The entries of the log that are returned calls of op on object o.
Calls(op, o) ==
    { i \in DOMAIN trace : trace[i].op = op /\ trace[i].obj = o /\ Returned(i) }

\* Some returned call of op on o precedes entry i.
Before(op, o, i) == \E j \in Calls(op, o) : j < i

\* The objects of optimus.postprocess created so far.
PostObjects == { o \in DOMAIN heap : heap[o].kind = "postprocess" }

\* Entry i is a call on optimus.postprocess: a constructor or a method.
PostCall(i) ==
    \/ trace[i].op \in PostprocessClasses
    \/ trace[i].obj \in PostObjects

\* The class that call is on.
ClassOf(i) ==
    IF trace[i].op \in PostprocessClasses THEN trace[i].op
    ELSE heap[trace[i].obj].by

\* The quadrature order has been assigned before entry i.
OrderSetBefore(i) ==
    \E j \in 1..(i - 1) : trace[j].op = "set_quadrature_order" /\ Returned(j)

OrderSet == OrderSetBefore(Len(trace) + 1)

\* s is a prefix of t.
IsPrefix(s, t) == Len(s) <= Len(t) /\ \A i \in 1..Len(s) : s[i] = t[i]

(* ------------------------------- claims -------------------------------- *)

\* The model handle is bound and the model holds its solution.
ModelSolved == env["model"] # 0 /\ heap[env["model"]].solved

C2_Original ==
    /\ \A i \in DOMAIN trace : PostCall(i) => OrderSetBefore(i)
    /\ OrderSet => quadrature_order = 20

\* C2 as amended: no call on a post-processing object built from the model
\* (VisualisePlane, Visualise3DField, VisualiseCloudPoints) comes before the
\* assignment quadrature_order = 20, every field is computed with order 20,
\* and the value is not changed after the assignment.  The calls on the
\* Visualise3DGrid object, which computes no field, come before it.
C2_OrderSetBeforeFieldPostprocessing ==
    /\ \A i \in DOMAIN trace :
          PostCall(i) =>
             IF ClassOf(i) \in ModelBasedClasses THEN OrderSetBefore(i)
             ELSE ~OrderSetBefore(i)
    /\ \A o \in PostObjects : \A k \in DOMAIN heap[o].quad : heap[o].quad[k] = 20
    /\ OrderSet => quadrature_order = 20
    /\ ~OrderSet => quadrature_order \in {0} \cup DefaultOrders

\* Every field has been computed, after the grid view was shown under the
\* library's default order.
C2_Witness ==
    /\ status = "done"
    /\ Calls("display_field", env["grids"]) # {}
    /\ \A o \in PostObjects :
          heap[o].by \in ModelBasedClasses => heap[o].quad = <<20>>

\* The three steps of a post-processing object, add_VisualisePlane aside.
StepsOf(o) == SelectSeq(heap[o].calls, LAMBDA c : c # "add_VisualisePlane")

AllThreeSteps == <<"create_computational_grid", "compute_fields", "display_field">>

\* The steps the notebook takes on an object of each class.
StepsExpected(class) ==
    CASE class = "Visualise3DGrid" -> <<"create_computational_grid", "display_field">>
      [] class = "VisualisePlane" -> <<"create_computational_grid", "compute_fields">>
      [] OTHER -> AllThreeSteps

\* C3 as stated: once the notebook has run, every post-processing object has
\* had create_computational_grid, compute_fields and display_field called on
\* it, in that order, none missing.
C3_Original ==
    /\ \A o \in PostObjects : IsPrefix(StepsOf(o), AllThreeSteps)
    /\ status = "done" => \A o \in PostObjects : StepsOf(o) = AllThreeSteps

\* C3 as amended: on every post-processing object create_computational_grid
\* is the first call and, where both are called, compute_fields precedes
\* display_field.  Once the notebook has run postprocess_3D and points have
\* had all three steps, grids has been gridded and displayed without
\* compute_fields, and postprocess_plane has been gridded and computed
\* without a display_field of its own.
C3_StepsInOrder ==
    /\ \A o \in PostObjects : IsPrefix(StepsOf(o), StepsExpected(heap[o].by))
    /\ status = "done" =>
          /\ { heap[o].by : o \in PostObjects } = PostprocessClasses
          /\ \A o \in PostObjects : StepsOf(o) = StepsExpected(heap[o].by)

\* The run is complete: four objects, two of them with all three steps.
C3_Witness ==
    /\ status = "done"
    /\ StepsOf(env["postprocess_3D"]) = AllThreeSteps
    /\ StepsOf(env["points"]) = AllThreeSteps
    /\ StepsOf(env["grids"]) = <<"create_computational_grid", "display_field">>
    /\ StepsOf(env["postprocess_plane"]) = <<"create_computational_grid", "compute_fields">>

\* The geometry g is the result of scale_mesh(geometry1, 1e-3): a mesh in
\* metres made from the imported millimetre mesh bound to geometry1.
ScaledToMetres(g) ==
    /\ heap[g].kind = "geometry"
    /\ heap[g].by = "scale_mesh"
    /\ heap[g].from = <<env["geometry1"]>>
    /\ heap[heap[g].from[1]].by = "import_grid"
    /\ heap[heap[g].from[1]].unit_exp = MeshFileUnitExp
    /\ heap[g].unit_exp = 0

\* C4: the geometry every model is created from, and so the geometry of the
\* model that solve() is called on, is the result of scale_mesh(geometry1,
\* 1e-3), in metres; it is neither of the imported handles geometry1 and
\* geometry2, and the interpreter never stands before create_default_model
\* with a geometry argument that is not the scaled one.
C4_ModelOnScaledMesh ==
    /\ \A m \in DOMAIN heap :
          heap[m].kind = "model"
             => /\ ScaledToMetres(heap[m].from[2])
                /\ heap[m].from[2] \notin {env["geometry1"], env["geometry2"]}
    /\ \A i \in DOMAIN trace :
          (trace[i].op = "create_default_model" /\ trace[i].outcome # "NameError")
             => /\ ScaledToMetres(trace[i].args[2])
                /\ trace[i].args[2] = env["geometry"]
    /\ \A i \in DOMAIN trace :
          trace[i].op = "solve" => ScaledToMetres(heap[trace[i].obj].from[2])

\* A model has been created and solved.
C4_Witness ==
    /\ ModelSolved
    /\ heap[env["model"]].from[2] = env["geometry"]
    /\ heap[env["geometry1"]].unit_exp = -3

\* C5 (state part): a call that did not return is the last entry of the
\* log, the execution is stopped at that statement, and a stopped execution
\* has such an entry; entry i of the log is statement i of the notebook, so
\* no statement is executed twice and none after a failure.
C5_FailureIsLast ==
    /\ \A i \in DOMAIN trace : ~Returned(i) => i = Len(trace)
    /\ Failed <=> (trace # <<>> /\ ~Returned(Len(trace)))
    /\ Len(trace) = IF Failed THEN pc ELSE pc - 1
    /\ Len(trace) <= N
    /\ \A i \in DOMAIN trace :
          trace[i].line = Notebook[i].line /\ trace[i].op = Notebook[i].op

FilterInstalled ==
    \E i \in DOMAIN trace : trace[i].op = "simplefilter" /\ Returned(i)

\* The entry of the log for the statement at a line of the file.
EntryAt(line) == CHOOSE i \in DOMAIN trace : trace[i].line = line

\* The warning was raised by a call made with the filter installed.
UnderFilter(e) ==
    \E j \in 1..(EntryAt(e[1]) - 1) : trace[j].op = "simplefilter" /\ Returned(j)

\* C6: the 'ignore' filter for UserWarning is installed before the first
\* display_field() call and is in force in every state from then on; before
\* it is installed no filter is in force, and import optimus, create_bowl,
\* load_material and import_grid are all executed before it.  So the
\* warnings shown are exactly those raised before the filter was installed
\* and those of another category.
C6_UserWarningSuppressed ==
    /\ \A i \in DOMAIN trace :
          trace[i].op = "display_field"
             => \E j \in 1..(i - 1) : trace[j].op = "simplefilter" /\ Returned(j)
    /\ FilterInstalled
          => /\ filters # <<>>
             /\ filters[1] = [action |-> "ignore", category |-> "UserWarning"]
             /\ FilterAction("UserWarning") = "ignore"
    /\ ~FilterInstalled => filters = <<>>
    /\ \A i \in DOMAIN trace :
          (\/ trace[i].op \in {"create_bowl", "load_material", "import_grid"}
           \/ (trace[i].op = "import" /\ Returned(i) /\ trace[i].obj = env["optimus"]))
             => \A j \in 1..i : trace[j].op # "simplefilter"
    /\ shown = { e \in emitted : ~(e[2] = "UserWarning" /\ UnderFilter(e)) }

\* display_field raised a UserWarning, which was not shown.
C6_Witness ==
    /\ status = "done"
    /\ \E e \in emitted \ shown :
          e[2] = "UserWarning" /\ trace[EntryAt(e[1])].op = "display_field"

\* The Visualise3DGrid object g was built on the two imported meshes and has
\* been gridded and displayed, in that order, before entry i of the log.
MeshesViewedBefore(g, i) ==
    /\ heap[g].by = "Visualise3DGrid"
    /\ heap[g].from = <<env["geometry1"], env["geometry2"]>>
    /\ \A k \in DOMAIN heap[g].from :
          /\ heap[heap[g].from[k]].by = "import_grid"
          /\ heap[heap[g].from[k]].unit_exp = MeshFileUnitExp
    /\ \E a \in Calls("Visualise3DGrid", g) :
       \E b \in Calls("create_computational_grid", g) :
       \E c \in Calls("display_field", g) :
          a < b /\ b < c /\ c < i

\* C7: Visualise3DGrid([geometry1, geometry2]) is built, gridded and
\* displayed before scale_mesh, create_default_model and model.solve() are
\* called; it shows the imported, unscaled meshes, compute_fields() is never
\* called on it, and no model exists when it is built and displayed.
C7_MeshesViewedBeforeModel ==
    /\ \A i \in DOMAIN trace :
          trace[i].op \in {"scale_mesh", "create_default_model", "solve"}
             => env["grids"] # 0 /\ MeshesViewedBefore(env["grids"], i)
    /\ \A o \in PostObjects :
          heap[o].by = "Visualise3DGrid"
             => /\ Calls("compute_fields", o) = {}
                /\ \A k \in DOMAIN heap[o].from : heap[heap[o].from[k]].kind = "geometry"
    /\ \A i \in DOMAIN trace :
          (trace[i].op = "Visualise3DGrid" \/ trace[i].obj \in PostObjects \cap {env["grids"]})
             => \A j \in 1..i : trace[j].op \notin {"scale_mesh", "create_default_model", "solve"}

\* The model has been solved after the meshes were viewed.
C7_Witness ==
    /\ Calls("solve", env["model"]) # {}
    /\ Calls("display_field", env["grids"]) # {}

\* C8: add_VisualisePlane is called on postprocess_3D with postprocess_plane
\* only after create_computational_grid and compute_fields have returned on
\* the plane and create_computational_grid has returned on postprocess_3D,
\* and before any compute_fields or display_field on postprocess_3D; once
\* the notebook has run, those two calls have followed it.
C8_PlaneComputedBeforeAdded ==
    /\ \A i \in DOMAIN trace :
          trace[i].op = "add_VisualisePlane" =>
             /\ trace[i].obj = env["postprocess_3D"]
             /\ trace[i].args = <<env["postprocess_plane"]>>
             /\ \E a \in Calls("create_computational_grid", trace[i].args[1]) :
                \E b \in Calls("compute_fields", trace[i].args[1]) : a < b /\ b < i
             /\ heap[trace[i].args[1]].quad # <<>>
             /\ Before("create_computational_grid", trace[i].obj, i)
             /\ \A j \in 1..i :
                   trace[j].obj = trace[i].obj
                      => trace[j].op \notin {"compute_fields", "display_field"}
    /\ status = "done" =>
          \E i \in Calls("add_VisualisePlane", env["postprocess_3D"]) :
          \E c \in Calls("compute_fields", env["postprocess_3D"]) :
          \E d \in Calls("display_field", env["postprocess_3D"]) :
             /\ i < c /\ c < d
             /\ heap[env["postprocess_3D"]].planes = <<env["postprocess_plane"]>>

\* The plane has been added and the 3D field computed and displayed.
C8_Witness ==
    /\ env["postprocess_3D"] # 0
    /\ heap[env["postprocess_3D"]].planes = <<env["postprocess_plane"]>>
    /\ Calls("display_field", env["postprocess_3D"]) # {}

\* C9: every name is bound before it is used and bound at most once, exactly
\* once when the notebook has run: the interpreter never stands before a
\* statement that reads an unbound name, so no NameError occurs.  solve() is
\* called at most once, exactly once when the notebook has run, and the
\* model-based post-processing objects, three when the notebook has run, all
\* hold the one model handle, the one solve() was called on.
C9_BoundBeforeUse ==
    /\ (status = "running" /\ pc <= N) => Bound(Cur)
    /\ status # "NameError"
    /\ \A n \in Names : binds[n] <= 1 /\ (binds[n] = 1 <=> env[n] # 0)
    /\ Cardinality({ i \in DOMAIN trace : trace[i].op = "solve" }) <= 1
    /\ \A o \in PostObjects :
          heap[o].by \in ModelBasedClasses
             => /\ heap[o].from = <<env["model"]>>
                /\ Calls("solve", heap[o].from[1]) # {}
    /\ status = "done" =>
          /\ \A n \in Names : binds[n] = 1
          /\ Cardinality(Calls("solve", env["model"])) = 1
          /\ { heap[o].by : o \in PostObjects } \cap ModelBasedClasses = ModelBasedClasses
          /\ Cardinality({ o \in PostObjects : heap[o].by \in ModelBasedClasses }) = 3

\* The notebook has run: the point cloud, which reads np, n, pointsarray and
\* model, has been displayed.
C9_Witness ==
    /\ status = "done"
    /\ Calls("display_field", env["points"]) # {}
    /\ heap[env["points"]].from = <<env["model"]>>

====
